---------------------------- MODULE Spec2Model ----------------------------
(***************************************************************************)
(* Model of mqttloghandler: the logging handler mqttHandler and the        *)
(* logger factory makeLogger of mqttlogger.py, and the direct publisher    *)
(* post with its module-wide client of examples/old_gist_version.py.       *)
(*                                                                         *)
(* Strings are sequences of one-character strings.  The broker and the     *)
(* paho-mqtt client library are the environment: whether the broker is     *)
(* reachable and whether a publish fails are chosen nondeterministically,  *)
(* except that the library rejects (ValueError) a publish whose topic is   *)
(* empty or holds a wildcard, or whose qos is not 0, 1 or 2.               *)
(***************************************************************************)
EXTENDS Integers, Sequences, FiniteSets, TLC

\* ------------------------------------------------------------- bounds
MaxMake == 2        \* makeLogger calls
MaxLog == 1         \* logging calls through a logger
MaxEmit == 3        \* emit calls made directly on the stand-alone handler
MaxPosts == 2       \* post calls
MaxImport == 2      \* attempts to import old_gist_version
MaxLen == 3         \* length of the strings given to the sanitization

\* ------------------------------------------------- program constants
DefaultQos == 1
DefaultPort == 1884
DefaultKeepalive == 60
DefaultProtocol == 3
RetryQos == 1
ErrorQos == 1
PostQosEscalated == RetryQos
PostQos == 0

\* ------------------------------------------------------------ strings
Wildcards == {"+", "#"}

HasWildcard(s) == \E i \in 1..Len(s) : s[i] \in Wildcards

\* str.replace(old, new) for one-character old and new
Replace(s, old, new) == [i \in 1..Len(s) |-> IF s[i] = old THEN new ELSE s[i]]

DefaultHost == "localhost"

\* the literal prefix of the topic makeLogger gives its MQTT handler
TopicPrefix == <<"D", "V", "T", "/">>

\* project = __name__ of mqttlogger.py
Project == <<"m", "q", "t", "t", "l", "o", "g", "g", "e", "r">>

\* ------------------------------------------------------------- inputs
TestName == <<"t", "e", "s", "t", "_", "l", "o", "g", "g", "e", "r">>

Names == { <<"x", ".", "y", ".", "z">>, <<"a", "+", "b">> }

Messages == { <<"h", "i">>, <<"c", "+", "l">> }

LogLevels == {"DEBUG", "INFO"}

SinkTopics == { <<"t", "/", "l", "o", "g">>, <<"t", "/", "#">> }

SinkQos == {0, 1, 3}

\* the broker as one publish.single call finds it: reachable ("up"), not
\* reachable ("down"), or reachable but refusing the session ("refuse")
BrokerStates == {"up", "down", "refuse"}

\* ---------------------------------------------------------- variables
VARIABLES
    loggers,     \* logging's registry: logger name -> [level, handlers]
    sink,        \* the stand-alone mqttHandler, a sequence of length 0 or 1
    emits,       \* the mqttHandler.emit calls of the last logging or emit call
    lastLog,     \* the last logging call: who received the record, what was raised
    mkRes,       \* the last makeLogger call: its arguments and its result
    openConns,   \* broker connections opened by emit and not closed
    nMake, nLog, nEmit,
    loaded,      \* old_gist_version has been imported
    nImport,     \* import attempts so far
    connCreated, \* connections establishBroker has opened
    sharedClient,\* the default _client of post (0: none)
    lastPost,    \* the last post call: its arguments, the module connection it
                 \* used (0: the caller's own client), its publishes, what it raised
    nPost,       \* post calls made
    tameIn,      \* the string last given to the sanitization of post
    tameOut,     \* what the sanitization made of it
    th,          \* per concurrent caller of post: where it is in its call
    inside,      \* the callers now inside a publish on the shared connection
    wire         \* the publishes begun on the shared connection, in order

vars == <<loggers, sink, emits, lastLog, mkRes, openConns, nMake, nLog, nEmit,
          loaded, nImport, connCreated, sharedClient, lastPost, nPost,
          tameIn, tameOut, th, inside, wire>>

logVars == <<loggers, sink, emits, lastLog, mkRes, openConns, nMake, nLog, nEmit>>

postVars == <<loaded, nImport, connCreated, sharedClient, lastPost, nPost>>

tameVars == <<tameIn, tameOut>>

concVars == <<th, inside, wire>>

\* ------------------------------------------------------------ logging
LevelNo(l) == IF l = "DEBUG" THEN 10 ELSE IF l = "INFO" THEN 20 ELSE 30

\* logging.Formatter(_format).format(record); a handler without a formatter
\* uses logging's default, which renders the message alone.  asctime and
\* module are rendered as the one-character strings "T" and "M".
Sep == <<" ", "-", " ">>

format(h, record) ==
    IF h.formatter = "asctime-module-message"
        THEN <<"T">> \o Sep \o <<"M">> \o Sep \o record.msg
    ELSE IF h.formatter = "asctime-message"
        THEN <<"T">> \o Sep \o record.msg
    ELSE record.msg

\* mqttHandler.__init__: every argument is stored, nothing is validated
mqttHandler_init(topic, qos, retain) ==
    [kind |-> "mqtt", formatter |-> "none",
     topic |-> topic, qos |-> qos, retain |-> retain,
     hostname |-> DefaultHost, port |-> DefaultPort, client_id |-> "",
     keepalive |-> DefaultKeepalive, will |-> "None", auth |-> "None",
     tls |-> "None", protocol |-> DefaultProtocol, transport |-> "tcp"]

\* logging.StreamHandler() / logging.FileHandler(path) with setFormatter
plainHandler(kind, fmt) ==
    [mqttHandler_init(<<>>, 0, FALSE) EXCEPT !.kind = kind, !.formatter = fmt]

\* paho's Client.publish raises ValueError for these arguments
publish_invalid(topic, qos) ==
    topic = <<>> \/ HasWildcard(topic) \/ qos \notin {0, 1, 2}

\* paho.mqtt.publish.single: a new client connects, publishes from its
\* on_connect callback and disconnects from its on_publish callback.  A
\* failed connect raises before any connection exists; an exception raised
\* in on_connect leaves loop_forever with the connection still open.
publish_single(topic, payload, qos, retain, hostname, port, brk) ==
    LET raised == IF brk = "down" THEN "OSError"
                  ELSE IF brk = "refuse" THEN "MQTTException"
                  ELSE IF publish_invalid(topic, qos) THEN "ValueError"
                  ELSE "none"
    IN  [attempt |-> [topic |-> topic, payload |-> payload, qos |-> qos,
                      retain |-> retain, hostname |-> hostname,
                      port |-> port, outcome |-> raised],
         raised |-> raised,
         opened |-> IF brk = "down" THEN 0 ELSE 1,
         closed |-> IF raised = "none" THEN 1 ELSE 0,
         delivered |-> raised = "none"]

\* the handler's attributes when emit has returned or raised, if emit wrote
\* the sanitized topic back to self.topic
emit_self_tamed(h, raised) ==
    [h EXCEPT !.topic = Replace(Replace(@, "+", "_"), "#", "_")]

\* the handler's attributes when emit has returned or raised: emit reads
\* self.topic, self.qos, ... and assigns none of them
emit_self(h, raised) == h

\* mqttHandler.emit: format the record, then one publish.single call; no
\* exception is handled, so whatever publish.single raises leaves emit
emit(h, record, brk) ==
    LET msg == format(h, record)
        r == publish_single(h.topic, msg, h.qos, h.retain,
                            h.hostname, h.port, brk)
    IN  [handler |-> emit_self(h, r.raised), record |-> record,
         attempts |-> <<r.attempt>>,
         raised |-> r.raised, opened |-> r.opened, closed |-> r.closed,
         delivered |-> r.delivered]

\* Logger.callHandlers: the handlers are called in the order they were
\* added; an exception leaving a handler's emit ends the loop and leaves
\* the logging call.  StreamHandler and FileHandler write the formatted
\* record and handle their own errors.
RECURSIVE callHandlers(_, _, _, _, _)
callHandlers(hs, i, record, env, acc) ==
    IF i > Len(hs) \/ acc.raised # "none" THEN acc
    ELSE IF hs[i].kind = "mqtt"
        THEN LET e == emit(hs[i], record, env[i])
             IN  callHandlers(hs, i + 1, record, env,
                     [acc EXCEPT !.reached = @ \cup {i},
                                 !.emits = Append(@, e),
                                 !.raised = e.raised])
    ELSE callHandlers(hs, i + 1, record, env,
             [acc EXCEPT !.reached = @ \cup {i},
                         !.written = Append(@, [idx |-> i, kind |-> hs[i].kind,
                                                text |-> format(hs[i], record)])])

RECURSIVE Opened(_)
Opened(es) == IF es = <<>> THEN 0 ELSE Head(es).opened + Opened(Tail(es))

RECURSIVE Closed(_)
Closed(es) == IF es = <<>> THEN 0 ELSE Head(es).closed + Closed(Tail(es))

NoCall == [reached |-> {}, emits |-> <<>>, written |-> <<>>, raised |-> "none"]

NoLog == [logger |-> <<>>, level |-> "none", msg |-> <<>>, enabled |-> FALSE,
          reached |-> {}, written |-> <<>>, raised |-> "none"]

NoMake == [name |-> <<>>, log_to_file |-> FALSE, log_level |-> "none",
           kw |-> "none", raised |-> "none", logger |-> <<>>]

\* name.replace(".", "/"), the name makeLogger registers the logger under
logger_name_kept(name) == name

logger_name(name) == Replace(name, ".", "/")

\* makeLogger's own statements, applied to logging's registry: getLogger
\* returns the logger already registered under the name, or a new one.
\* The result is the registry afterwards and the name of the logger returned.
makeLogger(reg, name, log_to_file, log_level) ==
    LET name2 == logger_name(name)
        fmt == IF log_level = "DEBUG" THEN "asctime-module-message"
               ELSE "asctime-message"
        old == IF name2 \in DOMAIN reg THEN reg[name2].handlers ELSE <<>>
        withFile == IF log_to_file THEN Append(old, plainHandler("file", fmt))
                    ELSE old
        withStream == Append(withFile, plainHandler("stream", fmt))
        my_handler == mqttHandler_init(TopicPrefix \o name2, DefaultQos, TRUE)
        log == [level |-> log_level, handlers |-> Append(withStream, my_handler)]
    IN  [reg |-> [n \in DOMAIN reg \cup {name2} |->
                      IF n = name2 THEN log ELSE reg[n]],
         log |-> name2]

\* --------------------------------------------------------------- post
\* project = __name__ of examples/old_gist_version.py
GistProject == <<"o", "l", "d", "_", "g", "i", "s", "t", "_",
                 "v", "e", "r", "s", "i", "o", "n">>

ErrorTopic == GistProject \o <<"/", "e", "r", "r", "o", "r">>

Subtopics == { <<"m">>, <<"a", "#", "+">> }

Payloads == { <<"v">>, <<"c", "+", "#">> }

\* what a publish call on the client may do when the library accepts its
\* arguments: return, raise ValueError (an oversized payload), or raise
\* another exception (a caller-supplied client)
Outcomes == {"ok", "ValueError", "Error"}

\* str(error), the text of the exception, as a one-character string
str_error(e) == IF e = "ValueError" THEN <<"v">> ELSE <<"e">>

\* topic.replace("+", "_").replace("#", "_")
tame_plus_only(s) == Replace(s, "+", "_")

tame(s) == Replace(Replace(s, "+", "_"), "#", "_")

\* _client.publish(topic=..., payload=..., qos=..., retain=...): the call
\* and how it ended; o is the outcome when the arguments are accepted
client_publish(topic, payload, qos, retain, o) ==
    [topic |-> topic, payload |-> payload, qos |-> qos, retain |-> retain,
     outcome |-> IF publish_invalid(topic, qos) THEN "ValueError" ELSE o]

\* payload = str(payload): the payload of the first publish is the caller's
first_payload_tamed(payload) == tame(payload)

first_payload(payload) == payload

\* the body of post; o[1], o[2], o[3] are the outcomes of its publishes
post(topic, payload, retain, o) ==
    LET t == GistProject \o <<"/">> \o topic
        p1 == client_publish(t, first_payload(payload), PostQos, retain, o[1])
        p2 == client_publish(tame(t), tame(payload), RetryQos, retain, o[2])
        p3 == client_publish(ErrorTopic, str_error(p2.outcome), ErrorQos, TRUE, o[3])
    IN  IF p1.outcome = "ok"
            THEN [pubs |-> <<p1>>, raised |-> "none"]
        ELSE IF p1.outcome # "ValueError"
            THEN [pubs |-> <<p1>>, raised |-> p1.outcome]
        ELSE IF p2.outcome = "ok"
            THEN [pubs |-> <<p1, p2>>, raised |-> "none"]
        ELSE [pubs |-> <<p1, p2, p3>>,
              raised |-> IF p3.outcome = "ok" THEN "none" ELSE p3.outcome]

\* the connections open after a post call: the default _client was made
\* when the def statement ran, so a call opens none
post_connections_per_call(created, own) ==
    IF own THEN created ELSE created + 1

post_connections(created, own) == created

NoPost == [topic |-> <<>>, payload |-> <<>>, retainArg |-> "omitted",
           retain |-> FALSE, own |-> FALSE,
           client |-> 0, pubs |-> <<>>, raised |-> "none"]

\* how a call passes retain: not at all, or as True or False
RetainArgs == {"omitted", "True", "False"}

\* the parameter retain: bool = False of post
post_retain(arg) == IF arg = "omitted" THEN FALSE ELSE arg = "True"

\* import old_gist_version: the def statement of post evaluates its default
\* _client=establishBroker() once; when connect raises the import fails
Import(brk) ==
    /\ ~loaded
    /\ nImport < MaxImport
    /\ nImport' = nImport + 1
    /\ IF brk = "up"
           THEN /\ connCreated' = connCreated + 1
                /\ sharedClient' = connCreated + 1
                /\ loaded' = TRUE
           ELSE UNCHANGED <<connCreated, sharedClient, loaded>>
    /\ UNCHANGED <<lastPost, nPost>>
    /\ UNCHANGED logVars
    /\ UNCHANGED tameVars
    /\ UNCHANGED concVars

\* post(topic, payload[, retain]) with the default client, or with a client
\* of the caller's (own)
Post(topic, payload, retainArg, own, o) ==
    /\ loaded
    /\ nPost < MaxPosts
    /\ nPost' = nPost + 1
    /\ LET retain == post_retain(retainArg)
           r == post(topic, payload, retain, o)
       IN  lastPost' = [topic |-> topic, payload |-> payload,
                        retainArg |-> retainArg, retain |-> retain,
                        own |-> own,
                        client |-> IF own THEN 0 ELSE sharedClient,
                        pubs |-> r.pubs, raised |-> r.raised]
    /\ connCreated' = post_connections(connCreated, own)
    /\ UNCHANGED <<loaded, nImport, sharedClient>>
    /\ UNCHANGED logVars
    /\ UNCHANGED tameVars
    /\ UNCHANGED concVars

\* the characters of the strings given to the sanitization
Chars == {"a", "/", "_", "+", "#"}

Strings == UNION { [1..n -> Chars] : n \in 0..MaxLen }

\* the sanitization of post applied to one string, a topic or a payload:
\* s.replace("+", "_").replace("#", "_")
Tame(s) ==
    /\ tameIn' = s
    /\ tameOut' = tame(s)
    /\ UNCHANGED logVars
    /\ UNCHANGED postVars
    /\ UNCHANGED concVars

\* ---------------------------------------------- concurrent post calls
\* the threads calling post with the default client
Callers == {1, 2}

Idle == [pc |-> "idle", topic |-> <<>>, payload |-> <<>>, retain |-> FALSE,
         pubs |-> <<>>, raised |-> "none"]

\* whether caller c may enter _client.publish while the callers in busy
\* are inside it: post takes no lock around the shared client
may_publish_locked(c, busy) == busy = {}

may_publish(c, busy) == TRUE

\* a thread calls post(topic, payload) with the default client
CallPost(c, topic, payload) ==
    /\ loaded
    /\ th[c].pc = "idle"
    /\ th' = [th EXCEPT ![c] = [Idle EXCEPT !.pc = "first",
                                           !.topic = GistProject \o <<"/">> \o topic,
                                           !.payload = first_payload(payload)]]
    /\ UNCHANGED <<inside, wire>>
    /\ UNCHANGED logVars
    /\ UNCHANGED postVars
    /\ UNCHANGED tameVars

\* the thread enters the _client.publish call of its first publish, of its
\* retry or of its error report
BeginPublish(c) ==
    /\ th[c].pc \in {"first", "retry", "error"}
    /\ may_publish(c, inside)
    /\ inside' = inside \cup {c}
    /\ wire' = Append(wire, [caller |-> c, step |-> th[c].pc,
                             client |-> sharedClient])
    /\ th' = [th EXCEPT ![c].pc = IF @ = "first" THEN "in_first"
                                  ELSE IF @ = "retry" THEN "in_retry"
                                  ELSE "in_error"]
    /\ UNCHANGED logVars
    /\ UNCHANGED postVars
    /\ UNCHANGED tameVars

\* the _client.publish call returns or raises, and post goes on as its
\* try/except statements say
EndPublish(c, o) ==
    /\ th[c].pc \in {"in_first", "in_retry", "in_error"}
    /\ inside' = inside \ {c}
    /\ LET t == th[c]
           p == IF t.pc = "in_first"
                    THEN client_publish(t.topic, t.payload, PostQos, t.retain, o)
                ELSE IF t.pc = "in_retry"
                    THEN client_publish(tame(t.topic), tame(t.payload),
                                        RetryQos, t.retain, o)
                ELSE client_publish(ErrorTopic,
                                    str_error(t.pubs[Len(t.pubs)].outcome),
                                    ErrorQos, TRUE, o)
           next == IF p.outcome = "ok" THEN "done"
                   ELSE IF t.pc = "in_first"
                       THEN (IF p.outcome = "ValueError" THEN "retry" ELSE "done")
                   ELSE IF t.pc = "in_retry" THEN "error"
                   ELSE "done"
           raised == IF next = "done" /\ p.outcome # "ok" THEN p.outcome
                     ELSE "none"
       IN  th' = [th EXCEPT ![c].pc = next,
                            ![c].pubs = Append(@, p),
                            ![c].raised = raised]
    /\ UNCHANGED wire
    /\ UNCHANGED logVars
    /\ UNCHANGED postVars
    /\ UNCHANGED tameVars

\* ------------------------------------------------------------ actions
\* a call makeLogger(name, log_to_file, log_level[, hostname=h]): the
\* signature has no hostname parameter, so passing one raises TypeError
\* before the body runs
MakeLogger(name, log_to_file, log_level, kw) ==
    /\ nMake < MaxMake
    /\ nMake' = nMake + 1
    /\ IF kw = "hostname"
           THEN /\ loggers' = loggers
                /\ mkRes' = [name |-> name, log_to_file |-> log_to_file,
                             log_level |-> log_level, kw |-> kw,
                             raised |-> "TypeError", logger |-> <<>>]
           ELSE LET r == makeLogger(loggers, name, log_to_file, log_level)
                IN  /\ loggers' = r.reg
                    /\ mkRes' = [name |-> name, log_to_file |-> log_to_file,
                                 log_level |-> log_level, kw |-> kw,
                                 raised |-> "none", logger |-> r.log]
    /\ UNCHANGED <<sink, emits, lastLog, openConns, nLog, nEmit>>
    /\ UNCHANGED postVars
    /\ UNCHANGED tameVars
    /\ UNCHANGED concVars

\* log.debug(msg) / log.info(msg) on a logger makeLogger returned
Log(lg, level, msg, env) ==
    /\ nLog < MaxLog
    /\ nLog' = nLog + 1
    /\ LET record == [level |-> level, msg |-> msg]
           enabled == LevelNo(level) >= LevelNo(loggers[lg].level)
           res == IF enabled
                      THEN callHandlers(loggers[lg].handlers, 1, record, env, NoCall)
                      ELSE NoCall
       IN  /\ lastLog' = [logger |-> lg, level |-> level, msg |-> msg,
                          enabled |-> enabled, reached |-> res.reached,
                          written |-> res.written, raised |-> res.raised]
           /\ emits' = res.emits
           /\ openConns' = openConns + Opened(res.emits) - Closed(res.emits)
    /\ UNCHANGED <<loggers, sink, mkRes, nMake, nEmit>>
    /\ UNCHANGED postVars
    /\ UNCHANGED tameVars
    /\ UNCHANGED concVars

\* mqttHandler(topic=..., qos=..., retain=...) constructed by the application
NewHandler(topic, qos, retain) ==
    /\ sink = <<>>
    /\ sink' = <<mqttHandler_init(topic, qos, retain)>>
    /\ UNCHANGED <<loggers, emits, lastLog, mkRes, openConns, nMake, nLog, nEmit>>
    /\ UNCHANGED postVars
    /\ UNCHANGED tameVars
    /\ UNCHANGED concVars

\* sink.emit(record) called on the stand-alone handler
Emit(level, msg, brk) ==
    /\ sink # <<>>
    /\ nEmit < MaxEmit
    /\ nEmit' = nEmit + 1
    /\ LET e == emit(sink[1], [level |-> level, msg |-> msg], brk)
       IN  /\ emits' = <<e>>
           /\ sink' = <<e.handler>>
           /\ openConns' = openConns + e.opened - e.closed
    /\ UNCHANGED <<loggers, lastLog, mkRes, nMake, nLog>>
    /\ UNCHANGED postVars
    /\ UNCHANGED tameVars
    /\ UNCHANGED concVars

\* what the handlers' publish.single calls find during one logging call:
\* the broker is up until the i-th handler finds it in state b.  The loop
\* of callHandlers ends at the first emit that raises, so the states found
\* by later handlers need no enumeration.
Envs(hs) ==
    { [j \in 1..Len(hs) |-> IF j = i THEN b ELSE "up"] :
        i \in { k \in 1..Len(hs) : hs[k].kind = "mqtt" }, b \in BrokerStates }

Init ==
    /\ loggers = <<>>
    /\ sink = <<>>
    /\ emits = <<>>
    /\ lastLog = NoLog
    /\ mkRes = NoMake
    /\ openConns = 0
    /\ nMake = 0 /\ nLog = 0 /\ nEmit = 0
    /\ loaded = FALSE
    /\ nImport = 0
    /\ connCreated = 0
    /\ sharedClient = 0
    /\ lastPost = NoPost
    /\ nPost = 0
    /\ tameIn = <<>>
    /\ tameOut = <<>>
    /\ th = [c \in Callers |-> Idle]
    /\ inside = {}
    /\ wire = <<>>

\* the calls of makeLogger: every name, with and without a file, at both
\* levels, and the call of test_mqttlogger.py, which passes hostname
MakeCalls ==
    { [name |-> n, log_to_file |-> f, log_level |-> l, kw |-> "none"] :
        n \in Names, f \in BOOLEAN, l \in LogLevels }
    \cup { [name |-> TestName, log_to_file |-> FALSE, log_level |-> "DEBUG",
            kw |-> "hostname"] }

\* the composite logger: makeLogger and logging through its loggers
Next ==
    \/ \E c \in MakeCalls : MakeLogger(c.name, c.log_to_file, c.log_level, c.kw)
    \/ \E lg \in DOMAIN loggers, l \in LogLevels, m \in Messages :
           \E env \in Envs(loggers[lg].handlers) : Log(lg, l, m, env)

Spec == Init /\ [][Next]_vars

\* one mqttHandler of any configuration and the emit calls made on it
NextSink ==
    \/ \E t \in SinkTopics, q \in SinkQos, r \in BOOLEAN : NewHandler(t, q, r)
    \/ \E l \in LogLevels, m \in Messages, b \in BrokerStates : Emit(l, m, b)

SpecSink == Init /\ [][NextSink]_vars

\* the module old_gist_version: its import and the calls of post
NextPost ==
    \/ \E b \in {"up", "down"} : Import(b)
    \/ \E t \in Subtopics, p \in Payloads, r \in RetainArgs, own \in BOOLEAN :
           \E o \in [1..3 -> Outcomes] : Post(t, p, r, own, o)

SpecPost == Init /\ [][NextPost]_vars

\* the sanitization of post on every string of the bounded set
NextTame == \E s \in Strings : Tame(s)

SpecTame == Init /\ [][NextTame]_vars

\* two threads, each making one post call with the default client
NextConc ==
    \/ \E b \in {"up", "down"} : Import(b)
    \/ \E c \in Callers, t \in Subtopics, p \in Payloads : CallPost(c, t, p)
    \/ \E c \in Callers : BeginPublish(c)
    \/ \E c \in Callers, o \in Outcomes : EndPublish(c, o)

SpecConc == Init /\ [][NextConc]_vars

\* ============================================================ properties
\* ------------------------------------------------ mqttHandler.emit
EmitCalls == { emits[i] : i \in DOMAIN emits }

\* an emit call whose first publish was rejected for a wildcard in its topic
TopicRejected(e) ==
    /\ HasWildcard(e.attempts[1].topic)
    /\ e.attempts[1].outcome = "ValueError"

\* the publishes of an emit call to the topic '{project}/error'
Diagnostics(e) ==
    { k \in DOMAIN e.attempts :
        e.attempts[k].topic = Project \o <<"/", "e", "r", "r", "o", "r">> }

\* C1: emit never raises into its caller: whatever the broker does and
\* whatever the topic, every emit call returns normally.
EmitNeverRaises == \A e \in EmitCalls : e.raised = "none"

\* C2: an emit call whose first publish fails with a topic-validity error
\* makes exactly one further publish, of the topic and payload with '+' and
\* '#' replaced by '_', at qos 1 with the handler's retain flag; no emit call
\* makes more than two publishes of the record.
EmitRetriesSanitized ==
    \A e \in EmitCalls :
        /\ Len(e.attempts) <= 2
        /\ TopicRejected(e) =>
               /\ Len(e.attempts) = 2
               /\ e.attempts[2].topic = tame(e.attempts[1].topic)
               /\ e.attempts[2].payload = tame(e.attempts[1].payload)
               /\ e.attempts[2].qos = 1
               /\ e.attempts[2].retain = e.handler.retain

\* C3: every connection an emit call opens is closed when the call ends,
\* also when connecting or publishing failed: after any number of emit
\* calls no connection is left open.
EmitClosesConnections ==
    /\ openConns = 0
    /\ \A e \in EmitCalls : e.opened = e.closed

\* C6: an emit call that could not publish its record after a
\* topic-validity failure (its sanitized retry failed too) has made exactly
\* one publish to '{project}/error', with retain set, and has not raised.
EmitReportsFailure ==
    \A e \in EmitCalls :
        (TopicRejected(e) /\ ~e.delivered) =>
            /\ Cardinality(Diagnostics(e)) = 1
            /\ \A k \in Diagnostics(e) : e.attempts[k].retain = TRUE
            /\ e.raised = "none"

\* ------------------------------------------------------ makeLogger
\* a logger name with every '.' turned into '/'
Slashed(n) == [i \in 1..Len(n) |-> IF n[i] = "." THEN "/" ELSE n[i]]

\* the last makeLogger call returned a logger
Made == mkRes.raised = "none" /\ mkRes.logger # <<>>

\* the handler the last makeLogger call added last, when it is an MQTT
\* handler with the given topic, on the logger named by the slashed name
AttachedTopic(topic) ==
    /\ Slashed(mkRes.name) \in DOMAIN loggers
    /\ LET hs == loggers[Slashed(mkRes.name)].handlers
       IN  /\ hs # <<>>
           /\ hs[Len(hs)].kind = "mqtt"
           /\ hs[Len(hs)].topic = topic

\* C8 as stated: the MQTT handler makeLogger(n) attaches publishes to
\* '{project}/' + n with dots as slashes + '/log'.
MqttTopicProjectLog ==
    /\ Made => AttachedTopic(Project \o <<"/">> \o Slashed(mkRes.name)
                             \o <<"/", "l", "o", "g">>)
    /\ \A e \in EmitCalls : \A k \in DOMAIN e.attempts :
           e.attempts[k].topic =
               Project \o <<"/">> \o lastLog.logger \o <<"/", "l", "o", "g">>

\* C8, amended: the MQTT handler makeLogger(n) attaches publishes to
\* 'DVT/' + n with every '.' replaced by '/', with no '/log' suffix:
\* makeLogger("x.y.z") publishes to 'DVT/x/y/z'.  Every publish made for a
\* record logged through the logger goes to that topic.
MqttTopicDVT ==
    /\ Made => AttachedTopic(<<"D", "V", "T", "/">> \o Slashed(mkRes.name))
    /\ (Made /\ mkRes.name = <<"x", ".", "y", ".", "z">>) =>
           AttachedTopic(<<"D", "V", "T", "/", "x", "/", "y", "/", "z">>)
    /\ \A e \in EmitCalls : \A k \in DOMAIN e.attempts :
           e.attempts[k].topic = <<"D", "V", "T", "/">> \o lastLog.logger

\* a record logged through the logger of makeLogger("x.y.z") was published
MqttTopicDVTReached ==
    /\ Made
    /\ mkRes.name = <<"x", ".", "y", ".", "z">>
    /\ \E e \in EmitCalls :
           /\ e.delivered
           /\ e.attempts[1].topic = <<"D", "V", "T", "/", "x", "/", "y", "/", "z">>

\* C9: makeLogger(name, log_to_file, log_level, hostname=h), the call of
\* test_logging, returns a logger (through which a record logged at INFO
\* is then published on 'DVT/<name>').
MakeLoggerTakesHostname ==
    mkRes.kw = "hostname" =>
        /\ mkRes.raised = "none"
        /\ mkRes.logger = Slashed(mkRes.name)

\* C10: when the MQTT handler fails on a record, the console handler and
\* the file handler of the logger still receive the record and the logging
\* call completes.
FanOutSurvivesMqttFailure ==
    (lastLog.enabled /\ \E e \in EmitCalls : e.raised # "none") =>
        /\ lastLog.raised = "none"
        /\ \A i \in DOMAIN loggers[lastLog.logger].handlers :
               loggers[lastLog.logger].handlers[i].kind \in {"stream", "file"}
                   => i \in lastLog.reached

\* ------------------------------------------------------------ post
\* the publishes of the last post call that the client accepted
Delivered == SelectSeq(lastPost.pubs, LAMBDA p : p.outcome = "ok")

\* a string holds the characters of s with each '+' and '#' turned to '_'
IsSanitized(r, s) ==
    /\ Len(r) = Len(s)
    /\ \A i \in 1..Len(s) :
           r[i] = IF s[i] = "+" \/ s[i] = "#" THEN "_" ELSE s[i]
    /\ \A i \in 1..Len(r) : r[i] # "+" /\ r[i] # "#"

\* C4: post never raises into its caller, whatever the outcomes of its
\* first publish, of its sanitized retry and of its publish to
\* '{project}/error'.
PostNeverRaises == lastPost.raised = "none"

\* C5: when the first publish of a post call fails with a validity error
\* (ValueError), the call makes exactly one retry, of the sanitized topic
\* and payload (no '+' or '#', each replaced by '_'), at qos 1 and with the
\* caller's retain flag; when the retry succeeds, the sanitized message is
\* the only one delivered and no diagnostic publish follows.
PostRetriesSanitizedOnce ==
    (nPost > 0 /\ lastPost.pubs[1].outcome = "ValueError") =>
        LET pubs == lastPost.pubs
            full == GistProject \o <<"/">> \o lastPost.topic
        IN  /\ Len(pubs) \in {2, 3}
            /\ IsSanitized(pubs[2].topic, full)
            /\ IsSanitized(pubs[2].payload, lastPost.payload)
            /\ pubs[2].qos = 1
            /\ pubs[2].retain = lastPost.retain
            /\ Len(pubs) = 3 =>
                   /\ pubs[2].outcome # "ok"
                   /\ pubs[3].topic = ErrorTopic
            /\ pubs[2].outcome = "ok" =>
                   /\ Len(pubs) = 2
                   /\ Delivered = <<pubs[2]>>
                   /\ lastPost.raised = "none"

\* a post call to a topic with a wildcard whose retry succeeded
PostRetriedAndDelivered ==
    /\ nPost > 0
    /\ HasWildcard(lastPost.topic)
    /\ HasWildcard(lastPost.payload)
    /\ lastPost.retain
    /\ Len(lastPost.pubs) = 2
    /\ lastPost.pubs[1].outcome = "ValueError"
    /\ lastPost.pubs[2].outcome = "ok"

\* C7 as stated: the shared connection is made lazily: none is open before
\* the first post call, and at most one is ever made.
SharedConnectionLazy ==
    /\ nPost = 0 => connCreated = 0
    /\ connCreated <= 1

\* C7, amended: the shared connection is made once, when the module is
\* imported and so before the first post call, not by a post call: at most
\* one module-wide connection is ever made, it exists whenever post can be
\* called, and every call that passes no client of its own uses it.
SharedConnectionAtImport ==
    /\ connCreated <= 1
    /\ loaded <=> connCreated = 1
    /\ nPost > 0 => connCreated = 1
    /\ (nPost > 0 /\ ~lastPost.own) =>
           lastPost.client = sharedClient /\ lastPost.client = 1

\* two post calls were made, the last with the default client
SharedConnectionReused ==
    /\ nPost >= 2
    /\ ~lastPost.own
    /\ lastPost.client = 1

\* ---------------------------------------------------- sanitization
\* C11: sanitization maps a string to a string of the same length in which
\* each position that held '+' or '#' holds '_' and every other position
\* holds its character; the result holds no '+' or '#', and sanitizing it
\* again returns it unchanged.
SanitizeReplacesWildcards ==
    /\ Len(tameOut) = Len(tameIn)
    /\ \A i \in 1..Len(tameIn) :
           /\ tameIn[i] \in {"+", "#"} => tameOut[i] = "_"
           /\ tameIn[i] \notin {"+", "#"} => tameOut[i] = tameIn[i]
    /\ \A i \in 1..Len(tameOut) : tameOut[i] # "+" /\ tameOut[i] # "#"
    /\ tame(tameOut) = tameOut

\* a string holding both wildcards and another character was sanitized
SanitizedBothWildcards ==
    /\ tameIn = <<"a", "+", "#">>
    /\ tameOut = <<"a", "_", "_">>

\* ----------------------------------------------- qos and retain of post
\* C12: the first publish of every post(subtopic, payload, retain) call
\* uses the topic '{project}/{subtopic}', qos 0 and the caller's retain flag
\* (false when none is given); post uses qos 1 only for the sanitized retry
\* and for the diagnostic publish to '{project}/error', which sets retain.
PostFirstPublishQos0 ==
    nPost > 0 =>
        LET pubs == lastPost.pubs
        IN  /\ pubs[1].topic = GistProject \o <<"/">> \o lastPost.topic
            /\ pubs[1].payload = lastPost.payload
            /\ pubs[1].qos = 0
            /\ pubs[1].retain = (lastPost.retainArg = "True")
            /\ \A k \in DOMAIN pubs : pubs[k].qos = 1 <=> k \in {2, 3}
            /\ Len(pubs) = 3 =>
                   /\ pubs[3].topic = GistProject \o <<"/", "e", "r", "r", "o", "r">>
                   /\ pubs[3].retain = TRUE

\* a post call without a retain argument that went through all three publishes
PostThreePublishes ==
    /\ nPost > 0
    /\ lastPost.retainArg = "omitted"
    /\ Len(lastPost.pubs) = 3
    /\ lastPost.pubs[1].qos = 0
    /\ lastPost.pubs[2].qos = 1

\* ------------------------------------------- qos and retain of the sink
\* the MQTT handlers makeLogger has attached to the loggers
LoggerSinks ==
    UNION { { loggers[n].handlers[i] :
                i \in { k \in 1..Len(loggers[n].handlers) :
                          loggers[n].handlers[k].kind = "mqtt" } } :
            n \in DOMAIN loggers }

\* the half of C13 about makeLogger: the first publish of every emit of a
\* handler makeLogger attached uses qos 1 and sets retain
LoggerSinkDefaults ==
    \A e \in EmitCalls :
        e.handler \in LoggerSinks =>
            e.attempts[1].qos = 1 /\ e.attempts[1].retain = TRUE

\* C13: every publish the log sink issues uses a qos among 0, 1 and 2, and
\* the first publish of every emit of a handler built by makeLogger uses
\* qos 1 and sets retain.
SinkQosValid ==
    /\ \A e \in EmitCalls : \A k \in DOMAIN e.attempts :
           e.attempts[k].qos \in {0, 1, 2}
    /\ LoggerSinkDefaults

\* ------------------------------------------------ payload of the sink
\* date, then the module name when wanted, then the message
Rendered(withModule, msg) ==
    IF withModule
        THEN <<"T", " ", "-", " ", "M", " ", "-", " ">> \o msg
        ELSE <<"T", " ", "-", " ">> \o msg

\* the position, among the handlers hs, of the j-th MQTT handler
MqttIndex(hs, j) ==
    CHOOSE k \in 1..Len(hs) :
        /\ hs[k].kind = "mqtt"
        /\ Cardinality({ m \in 1..k : hs[m].kind = "mqtt" }) = j

\* C14: the payload the MQTT handler of a makeLogger logger publishes for a
\* record is the record as the configured formatter renders it: the date,
\* the module name when and only when the logger was made at level DEBUG,
\* and the message, which is what the console handler added by the same
\* makeLogger call writes.
MqttPayloadFormatted ==
    /\ Made =>
           LET hs == loggers[mkRes.logger].handlers
           IN  hs[Len(hs) - 1].formatter =
                   IF mkRes.log_level = "DEBUG" THEN "asctime-module-message"
                   ELSE "asctime-message"
    /\ \A j \in DOMAIN emits :
           LET hs == loggers[lastLog.logger].handlers
               k == MqttIndex(hs, j)
               console == CHOOSE w \in { lastLog.written[i] :
                                           i \in DOMAIN lastLog.written } :
                              w.idx = k - 1
           IN  emits[j].delivered =>
                   /\ hs[k - 1].kind = "stream"
                   /\ emits[j].attempts[1].payload = console.text
                   /\ emits[j].attempts[1].payload =
                          Rendered(hs[k - 1].formatter = "asctime-module-message",
                                   lastLog.msg)

\* ------------------------------------------------ payload of post
\* C15: a post call whose topic holds no '+' or '#' and whose first
\* publish does not fail makes exactly one publish and sends the payload as
\* given, wildcards included; the payload is sanitized only on the retry
\* that follows a validity failure of the first publish.
PostPayloadVerbatim ==
    nPost > 0 =>
        LET pubs == lastPost.pubs
        IN  /\ pubs[1].payload = lastPost.payload
            /\ (~HasWildcard(lastPost.topic) /\ pubs[1].outcome = "ok") =>
                   /\ Len(pubs) = 1
                   /\ Delivered = <<pubs[1]>>
            /\ \A k \in DOMAIN pubs :
                   (HasWildcard(lastPost.payload)
                        /\ ~HasWildcard(pubs[k].payload)) =>
                       /\ k >= 2
                       /\ pubs[1].outcome = "ValueError"

\* post("m", "c+#") whose only publish carried "c+#"
PostSentWildcardPayload ==
    /\ nPost > 0
    /\ lastPost.topic = <<"m">>
    /\ lastPost.payload = <<"c", "+", "#">>
    /\ Len(lastPost.pubs) = 1
    /\ lastPost.pubs[1].outcome = "ok"
    /\ lastPost.pubs[1].payload = <<"c", "+", "#">>

\* ------------------------------------------- the shared connection
\* C16: post puts no mutual exclusion around the module-wide connection:
\* a caller about to publish is never kept out by another caller being
\* inside a publish, so two concurrent callers can be inside a publish on
\* the same connection at once and the first publish, the retry and the
\* error report of one can interleave with those of the other.
PostNoMutualExclusion ==
    \A c \in Callers :
        th[c].pc \in {"first", "retry", "error"} => ENABLED BeginPublish(c)

\* both callers are inside a publish on the one shared connection, and the
\* publishes of one have been begun around a publish of the other
PostPublishesInterleaved ==
    /\ inside = Callers
    /\ \A i \in DOMAIN wire : wire[i].client = sharedClient
    /\ \E i, j, k \in DOMAIN wire :
           /\ i < j /\ j < k
           /\ wire[i].caller = wire[k].caller
           /\ wire[j].caller # wire[i].caller
           /\ wire[i].step = "first"
           /\ wire[k].step \in {"retry", "error"}

\* ------------------------------------------- the sink's configuration
\* C17: the sink's endpoint and publish configuration are immutable after
\* construction: no emit call, successful or failed, changes the sink's
\* topic, qos, retain, hostname, port, client_id, keepalive, will, auth,
\* tls, protocol or transport, and every emit publishes to the topic and
\* with the qos the sink was constructed with.
SinkConfigImmutable ==
    /\ [][sink # <<>> => sink' = sink]_vars
    /\ [](\A e \in EmitCalls :
              /\ e.attempts[1].topic = sink[1].topic
              /\ e.attempts[1].qos = sink[1].qos
              /\ e.attempts[1].retain = sink[1].retain
              /\ e.attempts[1].hostname = sink[1].hostname
              /\ e.attempts[1].port = sink[1].port)

\* a sink constructed with a wildcard topic has emitted more than once, the
\* last emit failed, and the sink is still as its constructor made it
SinkUnchangedAfterFailedEmit ==
    /\ nEmit >= 2
    /\ sink = <<mqttHandler_init(<<"t", "/", "#">>, 1, TRUE)>>
    /\ \E e \in EmitCalls : e.raised = "ValueError"

\* ------------------------------------------- makeLogger called again
\* the handlers of kind k attached to the logger registered under n
SinksOf(reg, n, k) ==
    IF n \in DOMAIN reg
        THEN { i \in DOMAIN reg[n].handlers : reg[n].handlers[i].kind = k }
        ELSE {}

\* every completed makeLogger call keeps the handlers its logger had and
\* adds one console handler and one MQTT handler, and one file handler
\* exactly when log_to_file is set
MakeLoggerAccumulates ==
    [][(nMake' = nMake + 1 /\ mkRes'.raised = "none") =>
          LET n == mkRes'.logger
              old == IF n \in DOMAIN loggers THEN loggers[n].handlers ELSE <<>>
          IN  /\ SubSeq(loggers'[n].handlers, 1, Len(old)) = old
              /\ Cardinality(SinksOf(loggers', n, "mqtt"))
                     = Cardinality(SinksOf(loggers, n, "mqtt")) + 1
              /\ Cardinality(SinksOf(loggers', n, "stream"))
                     = Cardinality(SinksOf(loggers, n, "stream")) + 1
              /\ Cardinality(SinksOf(loggers', n, "file"))
                     = Cardinality(SinksOf(loggers, n, "file"))
                           + (IF mkRes'.log_to_file THEN 1 ELSE 0)]_vars

\* C18: makeLogger attaches sinks cumulatively to the named logger, so
\* after k calls for a name one logged record at or above the level causes
\* k MQTT publish cycles: one for each MQTT handler of the logger.
LogPublishesPerSink ==
    lastLog.enabled =>
        Len(emits) = Cardinality(SinksOf(loggers, lastLog.logger, "mqtt"))

\* two makeLogger calls for one name, and a record published by both sinks
LogPublishedTwice ==
    /\ lastLog.enabled
    /\ Cardinality(SinksOf(loggers, lastLog.logger, "mqtt")) = 2
    /\ Len(emits) = 2

====
